---- MODULE Spec2Model ----
(***************************************************************************)
(* Picture-coverage bookkeeping and target tracking of PPOTrainerO         *)
(* (habitat_baselines/rl/ppo/ppo_trainer.py).                              *)
(*                                                                         *)
(* Python lists are sequences; list positions that the code keeps in       *)
(* variables (k, idx, min_idx, the entries of cover_list) stay 0-based as  *)
(* in the code and are read through PyGet / written through PySet, which   *)
(* also give -1 its Python meaning (the last element).                     *)
(* A grid is a sequence of rows, a row a sequence of cell values.          *)
(***************************************************************************)
EXTENDS Integers, Sequences, FiniteSets, TLC

\* ------------------------------------------------------------ constants

\* maps.MAP_TARGET_POINT_INDICATOR, first of the three target categories
MAP_TARGET_POINT_INDICATOR == 6

\* self.TARGET_THRESHOLD_ONE
TARGET_THRESHOLD_ONE == 20

\* initial value of min_ci_k in the search over cover_list
MIN_CI_K_INIT == 1000

\* threshold=0.25 of _check_percentage_of_fog, as the fraction 1/4
THRESHOLD_NUM == 1
THRESHOLD_DEN == 4

\* self._num_picture (config TASK.PICTURE.NUM_PICTURE): kept pictures per episode
NUM_PICTURE == 2

\* self.config.TEST_EPISODE_COUNT: episodes an evaluation runs
TEST_EPISODE_COUNT == 3

\* ------------------------------------------------------------ Python lists

PyGet(list, k) == list[IF k < 0 THEN Len(list) + k + 1 ELSE k + 1]

PySet(list, k, v) == [list EXCEPT ![IF k < 0 THEN Len(list) + k + 1 ELSE k + 1] = v]

\* x in list
PyIn(x, list) == \E p \in 1 .. Len(list) : list[p] = x

\* list.remove(x): drops the first element equal to x
RECURSIVE PyRemove(_, _)
PyRemove(list, x) ==
    IF list = << >> THEN << >>
    ELSE IF Head(list) = x THEN Tail(list)
    ELSE << Head(list) >> \o PyRemove(Tail(list), x)

Rep(v, n) == [k \in 1 .. n |-> v]

\* ------------------------------------------------------------ target tracking

TargetInit ==
    << MAP_TARGET_POINT_INDICATOR, MAP_TARGET_POINT_INDICATOR + 1, MAP_TARGET_POINT_INDICATOR + 2 >>

\* The for loop of _delete_observed_target: a list iterator at position pos
\* (0-based) over a list that the body shortens while it is iterated.
RECURSIVE DeleteLoop(_, _, _, _)
DeleteLoop(target, observed, pos, object_num) ==
    IF pos >= Len(target) THEN [target |-> target, object_num |-> object_num]
    ELSE LET i == PyGet(target, pos)
         IN  IF PyGet(observed, i - MAP_TARGET_POINT_INDICATOR) > TARGET_THRESHOLD_ONE
             THEN DeleteLoop(PyRemove(target, i), observed, pos + 1, object_num + 1)
             ELSE DeleteLoop(target, observed, pos + 1, object_num)

\* _delete_observed_target that counts the categories over the threshold
\* instead of the removals it made.
_delete_observed_target_counting(target, observed) ==
    [target |-> DeleteLoop(target, observed, 0, 0).target,
     object_num |-> Cardinality({ p \in 1 .. Len(target) :
         PyGet(observed, target[p] - MAP_TARGET_POINT_INDICATOR) > TARGET_THRESHOLD_ONE })]

_delete_observed_target(target, observed) == DeleteLoop(target, observed, 0, 0)

\* The cells (i, j), 1-based here, that the loops over range(len(grid)) and
\* range(len(grid[0])) visit.
Cells(grid) == (1 .. Len(grid)) \X (1 .. Len(grid[1]))

\* Seen with the fixed three categories in place of the target list.
SeenAnyTarget(top_down_map, fog_of_war_map, target, i, j) ==
    /\ i <= Len(fog_of_war_map)
    /\ j <= Len(fog_of_war_map[i])
    /\ fog_of_war_map[i][j] = 1
    /\ PyIn(top_down_map[i][j], TargetInit)

\* The test of lines 324-326 on cell (i, j).
Seen(top_down_map, fog_of_war_map, target, i, j) ==
    /\ i <= Len(fog_of_war_map)
    /\ j <= Len(fog_of_war_map[i])
    /\ fog_of_war_map[i][j] = 1
    /\ PyIn(top_down_map[i][j], target)

\* The scan of lines 322-328 adds one to ci and one to the counter of the
\* cell's category for every cell that passes the test; target does not
\* change during the scan, so the scan adds the numbers of those cells.
ScanMap(top_down_map, fog_of_war_map, target, observed) ==
    LET seen == { p \in Cells(top_down_map) :
                    Seen(top_down_map, fog_of_war_map, target, p[1], p[2]) }
    IN  [ci |-> Cardinality(seen),
         observed |-> [c \in 1 .. 3 |->
                          observed[c] + Cardinality({ p \in seen :
                              top_down_map[p[1]][p[2]] - MAP_TARGET_POINT_INDICATOR = c - 1 })]]

\* _do_take_picture_object without line 338: an emptied target list is
\* reset, the counters are not.
_do_take_picture_object_keeping(top_down_map, fog_of_war_map, target, observed) ==
    LET scan == ScanMap(top_down_map, fog_of_war_map, target, observed)
        del == _delete_observed_target(target, scan.observed)
    IN  [ci |-> scan.ci,
         object_num |-> del.object_num,
         scanned |-> scan.observed,
         deleted |-> del.target,
         target |-> IF Len(del.target) = 0 THEN TargetInit ELSE del.target,
         observed |-> scan.observed]

\* _do_take_picture_object without lines 336-338: an emptied target list
\* stays empty.
_do_take_picture_object_no_reset(top_down_map, fog_of_war_map, target, observed) ==
    LET scan == ScanMap(top_down_map, fog_of_war_map, target, observed)
        del == _delete_observed_target(target, scan.observed)
    IN  [ci |-> scan.ci,
         object_num |-> del.object_num,
         scanned |-> scan.observed,
         deleted |-> del.target,
         target |-> del.target,
         observed |-> scan.observed]

\* _do_take_picture_object for one instance: the scan, the deletion of the
\* observed targets and the reset of an emptied target list.  scanned and
\* deleted are the counters and the target list as they stand at line 333
\* and line 334.
_do_take_picture_object(top_down_map, fog_of_war_map, target, observed) ==
    LET scan == ScanMap(top_down_map, fog_of_war_map, target, observed)
        del == _delete_observed_target(target, scan.observed)
        empty == Len(del.target) = 0
    IN  [ci |-> scan.ci,
         object_num |-> del.object_num,
         scanned |-> scan.observed,
         deleted |-> del.target,
         target |-> IF empty THEN TargetInit ELSE del.target,
         observed |-> IF empty THEN << 0, 0, 0 >> ELSE scan.observed]

\* ------------------------------------------------------------ coverage maps

\* _create_picture_range_map with the two tests of lines 834-835 in the
\* other order: the mask is looked at first.
_create_picture_range_map_mask_first(top_down_map, fog_of_war_map) ==
    [i \in 1 .. Len(top_down_map) |->
        [j \in 1 .. Len(top_down_map[1]) |->
            IF fog_of_war_map[i][j] = 1
            THEN 1
            ELSE IF top_down_map[i][j] # 0 THEN 2 ELSE 0]]

\* _create_picture_range_map: 0 wall, 1 photographed, 2 traversable
_create_picture_range_map(top_down_map, fog_of_war_map) ==
    [i \in 1 .. Len(top_down_map) |->
        [j \in 1 .. Len(top_down_map[1]) |->
            IF top_down_map[i][j] # 0
            THEN IF fog_of_war_map[i][j] = 1 THEN 1 ELSE 2
            ELSE 0]]

\* FogCount with num counting the cells photographed in either map.
FogCountEither(fog_map, pre_fog_map) ==
    [num |-> Cardinality({ p \in Cells(fog_map) :
                 fog_map[p[1]][p[2]] = 1 \/ pre_fog_map[p[1]][p[2]] = 1 }),
     num_covered |-> Cardinality({ p \in Cells(fog_map) :
                 fog_map[p[1]][p[2]] = 1 /\ pre_fog_map[p[1]][p[2]] = 1 })]

\* The two nested loops of _check_percentage_of_fog: num counts the cells
\* photographed in fog_map, num_covered those photographed in both maps.
FogCount(fog_map, pre_fog_map) ==
    LET taken == { p \in Cells(fog_map) : fog_map[p[1]][p[2]] = 1 }
    IN  [num |-> Cardinality(taken),
         num_covered |-> Cardinality({ p \in taken : pre_fog_map[p[1]][p[2]] = 1 })]

\* _check_percentage_of_fog with per <= threshold in place of per < threshold.
_check_percentage_of_fog_above(fog_map, pre_fog_map) ==
    IF Len(fog_map[1]) = Len(pre_fog_map[1]) /\ Len(fog_map) = Len(pre_fog_map)
    THEN LET c == FogCount(fog_map, pre_fog_map)
             below == IF c.num = 0
                      THEN TRUE
                      ELSE c.num_covered * THRESHOLD_DEN <= THRESHOLD_NUM * c.num
         IN  IF below THEN "False" ELSE "True"
    ELSE "None"

\* _check_percentage_of_fog: "True", "False", or "None" when the shapes differ
\* (the else branch evaluates False without returning it).
\* per < threshold is num_covered / num < 1/4, decided on integers.
_check_percentage_of_fog(fog_map, pre_fog_map) ==
    IF Len(fog_map[1]) = Len(pre_fog_map[1]) /\ Len(fog_map) = Len(pre_fog_map)
    THEN LET c == FogCount(fog_map, pre_fog_map)
             below == IF c.num = 0
                      THEN TRUE
                      ELSE c.num_covered * THRESHOLD_DEN < THRESHOLD_NUM * c.num
         IN  IF below THEN "False" ELSE "True"
    ELSE "None"

\* The loop over cover_list inside _cal_rate_of_fog_other, for one cell:
\* TRUE when a map of cover_list other than idx has the cell photographed.
RECURSIVE OtherCovers(_, _, _, _, _, _)
OtherCovers(pre_fog_of_war_map_list, cover_list, idx, i, j, k) ==
    IF k >= Len(cover_list) THEN FALSE
    ELSE LET map_idx == PyGet(cover_list, k)
         IN  IF map_idx = idx
             THEN OtherCovers(pre_fog_of_war_map_list, cover_list, idx, i, j, k + 1)
             ELSE IF PyGet(pre_fog_of_war_map_list, map_idx)[i][j] = 1
                  THEN TRUE
                  ELSE OtherCovers(pre_fog_of_war_map_list, cover_list, idx, i, j, k + 1)

\* _cal_rate_of_fog_other without lines 893-894: the map at idx counts too.
_cal_rate_of_fog_other_all(fog_map, pre_fog_of_war_map_list, cover_list, idx) ==
    LET taken == { p \in Cells(fog_map) : fog_map[p[1]][p[2]] = 1 }
    IN  [num |-> Cardinality(taken),
         num_covered |-> Cardinality({ p \in taken :
             OtherCovers(pre_fog_of_war_map_list, cover_list, -1, p[1], p[2], 0) })]

\* _cal_rate_of_fog_other: the rate num_covered / num as the pair of its
\* numerator and denominator (rate 0.0 when num = 0).  num counts the cells
\* photographed in fog_map, num_covered those for which the inner loop breaks.
_cal_rate_of_fog_other(fog_map, pre_fog_of_war_map_list, cover_list, idx) ==
    LET taken == { p \in Cells(fog_map) : fog_map[p[1]][p[2]] = 1 }
    IN  [num |-> Cardinality(taken),
         num_covered |-> Cardinality({ p \in taken :
             OtherCovers(pre_fog_of_war_map_list, cover_list, idx, p[1], p[2], 0) })]

RECURSIVE Gcd(_, _)
Gcd(a, b) == IF b = 0 THEN a ELSE Gcd(b, a % b)

RECURSIVE IsPowerOfTwo(_)
IsPowerOfTwo(n) == IF n = 1 THEN TRUE ELSE IF n % 2 = 1 THEN FALSE ELSE IsPowerOfTwo(n \div 2)

\* A rate num_covered / num is a binary floating-point number exactly when its
\* reduced denominator is a power of two.
ExactRate(r) == r.num = 0 \/ IsPowerOfTwo(r.num \div Gcd(r.num, r.num_covered))

\* _compareWithChangedCI: ci * (1 - rate) > pre_ci.  The counts are small
\* integers, so the double-precision product is on the same side of pre_ci as
\* the exact product ci * (num - num_covered) / num unless the two are equal;
\* when they are equal and the rate is not exactly representable, rounding
\* decides, and round_up stands for the outcome of that rounding.
\* greater is the result, rounded tells that rounding decided it.
CompareRate(rate, ci, pre_ci, round_up) ==
    IF rate.num = 0
    THEN [greater |-> ci > pre_ci, rounded |-> FALSE]
    ELSE IF ci * (rate.num - rate.num_covered) = pre_ci * rate.num /\ ~ExactRate(rate)
         THEN [greater |-> round_up, rounded |-> TRUE]
         ELSE [greater |-> ci * (rate.num - rate.num_covered) > pre_ci * rate.num,
               rounded |-> FALSE]

_compareWithChangedCI(picture_range_map, pre_fog_of_war_map_list, cover_list, ci, pre_ci, idx, round_up) ==
    CompareRate(_cal_rate_of_fog_other(picture_range_map, pre_fog_of_war_map_list, cover_list, idx),
                ci, pre_ci, round_up)

\* ------------------------------------------------------------ picture slots

\* Loop of lines 431-439 over the kept pictures: cover_list, idx, min_ci.
RECURSIVE CoverLoop(_, _, _, _, _)
CoverLoop(picture_range_map, taken, pre_fog_of_war_map, acc, k) ==
    IF k >= Len(pre_fog_of_war_map) THEN acc
    ELSE LET cl == IF _check_percentage_of_fog(picture_range_map, PyGet(pre_fog_of_war_map, k)) = "True"
                   THEN Append(acc.cover_list, k)
                   ELSE acc.cover_list
             lower == acc.min_ci < PyGet(taken, acc.idx)[1]
             idx2 == IF lower THEN k ELSE acc.idx
             min2 == IF lower THEN PyGet(taken, idx2)[1] ELSE acc.min_ci
         IN  CoverLoop(picture_range_map, taken, pre_fog_of_war_map,
                       [cover_list |-> cl, idx |-> idx2, min_ci |-> min2], k + 1)

\* Loop of lines 466-470 over cover_list: min_idx, min_ci_k.
RECURSIVE MinLoop(_, _, _, _)
MinLoop(taken, cover_list, acc, k) ==
    IF k >= Len(cover_list) THEN acc
    ELSE LET idx_k == PyGet(cover_list, k)
         IN  IF PyGet(taken, idx_k)[1] < acc.min_ci_k
             THEN MinLoop(taken, cover_list,
                          [min_idx |-> idx_k, min_ci_k |-> PyGet(taken, idx_k)[1]], k + 1)
             ELSE MinLoop(taken, cover_list, acc, k + 1)

\* NoCoverBranch without the test of line 443: the picture is always appended.
NoCoverBranchUnbounded(taken, ci, picture_range_map, scan) ==
    [taken |-> Append(taken, << ci, picture_range_map >>),
     ci |-> ci, reward |-> ci, rounded |-> FALSE]

\* NoCoverBranch with the picture put in front of the list instead of behind.
NoCoverBranchInFront(taken, ci, picture_range_map, scan) ==
    IF Len(taken) # NUM_PICTURE
    THEN [taken |-> << << ci, picture_range_map >> >> \o taken,
          ci |-> ci, reward |-> ci, rounded |-> FALSE]
    ELSE [taken |-> taken, ci |-> 0, reward |-> 0, rounded |-> FALSE]

\* NoCoverBranch that writes the picture over slot idx after line 457 took
\* ci_pre off ci[n].
NoCoverBranchStoresDelta(taken, ci, picture_range_map, scan) ==
    IF Len(taken) # NUM_PICTURE
    THEN [taken |-> Append(taken, << ci, picture_range_map >>),
          ci |-> ci, reward |-> ci, rounded |-> FALSE]
    ELSE IF scan.idx # -1
         THEN [taken |-> PySet(taken, scan.idx,
                               << ci - PyGet(taken, scan.idx)[1], picture_range_map >>),
               ci |-> ci - PyGet(taken, scan.idx)[1],
               reward |-> ci - PyGet(taken, scan.idx)[1],
               rounded |-> FALSE]
         ELSE [taken |-> taken, ci |-> 0, reward |-> 0, rounded |-> FALSE]

\* Lines 442-459: the picture covers none of the kept ones.
NoCoverBranch(taken, ci, picture_range_map, scan) ==
    IF Len(taken) # NUM_PICTURE
    THEN [taken |-> Append(taken, << ci, picture_range_map >>),
          ci |-> ci, reward |-> ci, rounded |-> FALSE]
    ELSE IF scan.idx # -1
         THEN [taken |-> PySet(taken, scan.idx, << ci, picture_range_map >>),
               ci |-> ci - PyGet(taken, scan.idx)[1],
               reward |-> ci - PyGet(taken, scan.idx)[1],
               rounded |-> FALSE]
         ELSE [taken |-> taken, ci |-> 0, reward |-> 0, rounded |-> FALSE]

\* CoverBranch that credits the whole ci of a picture it keeps, without
\* taking min_ci_k off (lines 476-477).
CoverBranchFullCredit(taken, ci, picture_range_map, pre_fog_of_war_map, scan, round_up) ==
    LET m == MinLoop(taken, scan.cover_list,
                     [min_idx |-> -1, min_ci_k |-> MIN_CI_K_INIT], 0)
        cmp == _compareWithChangedCI(picture_range_map, pre_fog_of_war_map,
                                     scan.cover_list, ci, m.min_ci_k, m.min_idx, round_up)
    IN  IF cmp.greater
        THEN [taken |-> PySet(taken, m.min_idx, << ci, picture_range_map >>),
              ci |-> ci, reward |-> ci, rounded |-> cmp.rounded]
        ELSE [taken |-> taken, ci |-> 0, reward |-> 0, rounded |-> cmp.rounded]

\* Lines 462-479: the picture covers the kept pictures of scan.cover_list.
CoverBranch(taken, ci, picture_range_map, pre_fog_of_war_map, scan, round_up) ==
    LET m == MinLoop(taken, scan.cover_list,
                     [min_idx |-> -1, min_ci_k |-> MIN_CI_K_INIT], 0)
        cmp == _compareWithChangedCI(picture_range_map, pre_fog_of_war_map,
                                     scan.cover_list, ci, m.min_ci_k, m.min_idx, round_up)
    IN  IF cmp.greater
        THEN [taken |-> PySet(taken, m.min_idx, << ci, picture_range_map >>),
              ci |-> ci - m.min_ci_k, reward |-> ci - m.min_ci_k,
              rounded |-> cmp.rounded]
        ELSE [taken |-> taken, ci |-> 0, reward |-> 0, rounded |-> cmp.rounded]

\* Lines 441-479 for one instance, after the loop of line 431 gave scan.
Decide(taken, ci, picture_range_map, pre_fog_of_war_map, scan, round_up) ==
    IF Len(scan.cover_list) = 0
    THEN NoCoverBranch(taken, ci, picture_range_map, scan)
    ELSE CoverBranch(taken, ci, picture_range_map, pre_fog_of_war_map, scan, round_up)

\* Lines 426-439 for one instance: the scan over the kept pictures that
\* comes before the decision, from cover_list = [], idx = -1, min_ci = ci[n].
Scan(taken, ci, picture_range_map) ==
    CoverLoop(picture_range_map, taken, [p \in 1 .. Len(taken) |-> taken[p][2]],
              [cover_list |-> << >>, idx |-> -1, min_ci |-> ci], 0)

\* Lines 426-479 for one instance: a picture with ci # 0 against the kept
\* pictures taken.  Gives the new list, the final ci[n], the amount added
\* to reward[n] and the idx the scan ended with.
KeepPicture(taken, ci, picture_range_map, round_up) ==
    LET scan == Scan(taken, ci, picture_range_map)
        d == Decide(taken, ci, picture_range_map, [p \in 1 .. Len(taken) |-> taken[p][2]],
                    scan, round_up)
    IN  [taken |-> d.taken, ci |-> d.ci, reward |-> d.reward, rounded |-> d.rounded,
         idx |-> scan.idx]

\* ------------------------------------------------------------ environment outputs

\* Columns of the maps the environment hands out here: one more than a row of
\* TARGET_THRESHOLD_ONE + 1 target cells.
Width == TARGET_THRESHOLD_ONE + 2

\* A row of the map: TARGET_THRESHOLD_ONE + 1 cells of one category, closed by a
\* wall cell.
RoomRow(category) == Rep(category, TARGET_THRESHOLD_ONE + 1) \o << 0 >>

\* The map of infos: one row per target category.
RoomMap ==
    << RoomRow(MAP_TARGET_POINT_INDICATOR),
       RoomRow(MAP_TARGET_POINT_INDICATOR + 1),
       RoomRow(MAP_TARGET_POINT_INDICATOR + 2) >>

\* A row of a fog_of_war_mask that shows the columns a + 1 .. b.
Shown(a, b) == Rep(0, a) \o Rep(1, b - a) \o Rep(0, Width - b)

Hidden == Shown(0, 0)

Masks ==
    { << Hidden, Hidden, Hidden >>,
      << Shown(0, 10), Hidden, Hidden >>,
      << Hidden, Shown(0, 5), Hidden >>,
      << Hidden, Hidden, Shown(0, 8) >>,
      << Shown(0, 12), Hidden, Hidden >>,
      << Shown(0, 10), Shown(0, 5), Hidden >>,
      << Shown(0, 4), Shown(0, 4), Shown(0, 8) >>,
      << Shown(0, Width - 1), Shown(0, 5), Hidden >>,
      << Shown(0, Width - 1), Shown(0, Width - 1), Hidden >>,
      << Shown(0, Width), Shown(0, Width), Shown(0, Width) >> }

\* infos[i]["top_down_map"]["map"], infos[i]["picture_range_map"]["map"] and
\* infos[i]["picture_range_map"]["fog_of_war_mask"] of one step
Infos ==
    { [top_map |-> RoomMap, top_down_map |-> RoomMap, fog_of_war_map |-> f] : f \in Masks }

IdleInfo ==
    [top_map |-> RoomMap, top_down_map |-> RoomMap,
     fog_of_war_map |-> << Hidden, Hidden, Hidden >>]

\* What one step hands to one instance: whether rewards[i][0][1] carries a
\* picture (it is -sys.float_info.max otherwise), the maps and the done flag.
\* The maps of a step that takes no picture: nothing in view, or all of it.
IdleInfos ==
    { IdleInfo,
      [top_map |-> RoomMap, top_down_map |-> RoomMap,
       fog_of_war_map |-> << Shown(0, Width), Shown(0, Width), Shown(0, Width) >>] }

StepInputs ==
    { [picture |-> TRUE, info |-> s, done |-> d] : s \in Infos, d \in BOOLEAN }
    \cup { [picture |-> FALSE, info |-> s, done |-> d] : s \in IdleInfos, d \in BOOLEAN }

\* A second building: a hall whose rows are long enough for pictures that
\* see MIN_CI_K_INIT target cells and more.  A picture that is to pass
\* MIN_CI_K_INIT after losing a quarter of its cells needs more than
\* 4/3 * MIN_CI_K_INIT of them.
HallWidth == (4 * MIN_CI_K_INIT) \div 3 + 1

HallRow(category) == Rep(category, HallWidth)

HallMap ==
    << HallRow(MAP_TARGET_POINT_INDICATOR), HallRow(MAP_TARGET_POINT_INDICATOR + 1) >>

HallShown(a, b) == Rep(0, a) \o Rep(1, b - a) \o Rep(0, HallWidth - b)

HallHidden == HallShown(0, 0)

HallMasks ==
    { << HallHidden, HallHidden >>,
      << HallShown(0, MIN_CI_K_INIT + 10), HallHidden >>,
      << HallShown(0, MIN_CI_K_INIT - 200), HallHidden >>,
      << HallHidden, HallShown(0, 5) >>,
      << HallShown(0, HallWidth \div 3 + 1), HallShown(0, HallWidth) >> }

HallInfos ==
    { [top_map |-> HallMap, top_down_map |-> HallMap, fog_of_war_map |-> f] : f \in HallMasks }

HallIdleInfo ==
    [top_map |-> HallMap, top_down_map |-> HallMap,
     fog_of_war_map |-> << HallHidden, HallHidden >>]

HallInputs ==
    { [picture |-> TRUE, info |-> s, done |-> d] : s \in HallInfos, d \in BOOLEAN }
    \cup { [picture |-> FALSE, info |-> HallIdleInfo, done |-> d] : d \in BOOLEAN }

\* ------------------------------------------------------------ state

VARIABLES
    num_envs,                  \* self.envs.num_envs
    _taken_picture_list,       \* per instance: list of << ci, picture_range_map >>
    _target_index_list,        \* per instance: list of target categories
    _observed_object_ci_one,   \* per instance: three counters
    picture,                   \* per instance: ci[n] != -sys.float_info.max held at line 415
    infos,                     \* per instance: the maps of the last step
    dones,                     \* per instance: done flag of the last step
    ci,                        \* per instance: ci[n] after the loop of line 413
    object_num,                \* per instance: object_num[n]
    reward,                    \* per instance: what the loop of line 413 added to reward[n]
    current_episode_ci,        \* per instance: the ci[n] of the steps of the episode, summed
    scored,                    \* per instance: ci, counters and target list at lines 333-334,
                               \* idx after the loop of line 431
    args,                      \* arguments of a call of one helper method on its own
    result,                    \* what that call returned
    eval                       \* the trainer and the batch of an evaluation run

train_vars ==
    << num_envs, _taken_picture_list, _target_index_list, _observed_object_ci_one,
       picture, infos, dones, ci, object_num, reward, current_episode_ci, scored >>

vars == << train_vars, args, result, eval >>

\* the instances 0 .. num_envs - 1
Envs == 0 .. (num_envs - 1)

\* train, lines 626-634, before the first step: construct_envs made envs
\* instances, whose reset gave the maps info.
TrainInit(envs, info) ==
    /\ num_envs = envs
    /\ _taken_picture_list = [n \in Envs |-> << >>]
    /\ _target_index_list = [n \in Envs |-> TargetInit]
    /\ _observed_object_ci_one = [n \in Envs |-> << 0, 0, 0 >>]
    /\ picture = [n \in Envs |-> FALSE]
    /\ infos = [n \in Envs |-> info]
    /\ dones = [n \in Envs |-> FALSE]
    /\ ci = [n \in Envs |-> 0]
    /\ object_num = [n \in Envs |-> 0]
    /\ reward = [n \in Envs |-> 0]
    /\ current_episode_ci = [n \in Envs |-> 0]
    /\ scored = [n \in Envs |-> [ci |-> 0, scanned |-> << 0, 0, 0 >>, deleted |-> TargetInit, idx |-> -1]]

\* no helper method is called on its own
NoCall == args = [fn |-> "none"] /\ result = [fn |-> "none"]

\* no evaluation runs
NoEval == eval = [envs |-> << >>]

\* training with a single instance in the room
Init == TrainInit(1, IdleInfo) /\ NoCall /\ NoEval

\* training with a single instance in the hall
InitHall == TrainInit(1, HallIdleInfo) /\ NoCall /\ NoEval

\* ------------------------------------------------------------ one step

\* PictureBody without lines 422-423: a picture with ci = 0 goes on to the
\* kept pictures like any other.
PictureBodyNoSkip(st, inp, round_up, n) ==
    IF inp[n].picture
    THEN LET picture_range_map ==
                 _create_picture_range_map(inp[n].info.top_down_map, inp[n].info.fog_of_war_map)
             t == _do_take_picture_object(inp[n].info.top_map, inp[n].info.fog_of_war_map,
                                          st.target[n], st.observed[n])
             k == KeepPicture(st.taken[n], t.ci, picture_range_map, round_up[n])
         IN  [st EXCEPT !.target[n] = t.target,
                        !.observed[n] = t.observed,
                        !.object_num[n] = t.object_num,
                        !.scored[n] = [ci |-> t.ci, scanned |-> t.scanned,
                                       deleted |-> t.deleted,
                                       idx |-> k.idx],
                        !.taken[n] = k.taken,
                        !.ci[n] = k.ci,
                        !.reward[n] = k.reward,
                        !.rounded[n] = k.rounded]
    ELSE [st EXCEPT !.ci[n] = 0]

\* PictureBody that scores every instance against the target list and the
\* counters of instance 0.
PictureBodyShared(st, inp, round_up, n) ==
    IF inp[n].picture
    THEN LET picture_range_map ==
                 _create_picture_range_map(inp[n].info.top_down_map, inp[n].info.fog_of_war_map)
             t == _do_take_picture_object(inp[n].info.top_map, inp[n].info.fog_of_war_map,
                                          st.target[0], st.observed[0])
             st1 == [st EXCEPT !.target[0] = t.target,
                               !.observed[0] = t.observed,
                               !.object_num[n] = t.object_num,
                               !.scored[n] = [ci |-> t.ci, scanned |-> t.scanned,
                                              deleted |-> t.deleted, idx |-> -1]]
         IN  IF t.ci = 0
             THEN [st1 EXCEPT !.ci[n] = 0]
             ELSE LET k == KeepPicture(st.taken[n], t.ci, picture_range_map, round_up[n])
                  IN  [st1 EXCEPT !.scored[n].idx = k.idx,
                                  !.taken[n] = k.taken,
                                  !.ci[n] = k.ci,
                                  !.reward[n] = k.reward,
                                  !.rounded[n] = k.rounded]
    ELSE [st EXCEPT !.ci[n] = 0]

\* PictureBody without the test of line 415: every step counts as a picture.
PictureBodyAlways(st, inp, round_up, n) ==
    LET picture_range_map ==
            _create_picture_range_map(inp[n].info.top_down_map, inp[n].info.fog_of_war_map)
        t == _do_take_picture_object(inp[n].info.top_map, inp[n].info.fog_of_war_map,
                                     st.target[n], st.observed[n])
        st1 == [st EXCEPT !.target[n] = t.target,
                          !.observed[n] = t.observed,
                          !.object_num[n] = t.object_num,
                          !.scored[n] = [ci |-> t.ci, scanned |-> t.scanned,
                                         deleted |-> t.deleted, idx |-> -1]]
    IN  IF t.ci = 0
        THEN [st1 EXCEPT !.ci[n] = 0]
        ELSE LET k == KeepPicture(st.taken[n], t.ci, picture_range_map, round_up[n])
             IN  [st1 EXCEPT !.scored[n].idx = k.idx,
                             !.taken[n] = k.taken,
                             !.ci[n] = k.ci,
                             !.reward[n] = k.reward,
                             !.rounded[n] = k.rounded]

\* Body of the loop of line 413 for instance n, on the state st of the
\* trainer; round_up[n] is the rounding outcome of _compareWithChangedCI.
PictureBody(st, inp, round_up, n) ==
    IF inp[n].picture
    THEN LET picture_range_map ==
                 _create_picture_range_map(inp[n].info.top_down_map, inp[n].info.fog_of_war_map)
             t == _do_take_picture_object(inp[n].info.top_map, inp[n].info.fog_of_war_map,
                                          st.target[n], st.observed[n])
             st1 == [st EXCEPT !.target[n] = t.target,
                               !.observed[n] = t.observed,
                               !.object_num[n] = t.object_num,
                               !.scored[n] = [ci |-> t.ci, scanned |-> t.scanned,
                                              deleted |-> t.deleted, idx |-> -1]]
         IN  IF t.ci = 0
             THEN [st1 EXCEPT !.ci[n] = 0]
             ELSE LET k == KeepPicture(st.taken[n], t.ci, picture_range_map, round_up[n])
                  IN  [st1 EXCEPT !.scored[n].idx = k.idx,
                                  !.taken[n] = k.taken,
                                  !.ci[n] = k.ci,
                                  !.reward[n] = k.reward,
                                  !.rounded[n] = k.rounded]
    ELSE [st EXCEPT !.ci[n] = 0]

\* for n in range(len(observations)), line 413
RECURSIVE PictureLoop(_, _, _, _)
PictureLoop(st, inp, round_up, n) ==
    IF n >= num_envs THEN st
    ELSE PictureLoop(PictureBody(st, inp, round_up, n), inp, round_up, n + 1)

\* EpisodeEndLoop without line 523: the target list outlives the episode.
RECURSIVE EpisodeEndLoopKeepsTarget(_, _, _)
EpisodeEndLoopKeepsTarget(st, inp, n) ==
    IF n >= num_envs THEN st
    ELSE EpisodeEndLoopKeepsTarget(IF inp[n].done
                                   THEN [st EXCEPT !.taken[n] = << >>]
                                   ELSE st,
                                   inp, n + 1)

\* EpisodeEndLoop with line 523 adding the three categories to the target
\* list instead of assigning them.
RECURSIVE EpisodeEndLoopExtends(_, _, _)
EpisodeEndLoopExtends(st, inp, n) ==
    IF n >= num_envs THEN st
    ELSE EpisodeEndLoopExtends(IF inp[n].done
                               THEN [st EXCEPT !.taken[n] = << >>,
                                               !.target[n] = st.target[n] \o TargetInit]
                               ELSE st,
                               inp, n + 1)

\* for n in range(len(observations)), line 507: an episode that ended
RECURSIVE EpisodeEndLoop(_, _, _)
EpisodeEndLoop(st, inp, n) ==
    IF n >= num_envs THEN st
    ELSE EpisodeEndLoop(IF inp[n].done
                        THEN [st EXCEPT !.taken[n] = << >>, !.target[n] = TargetInit]
                        ELSE st,
                        inp, n + 1)

\* StepResult without lines 716-717: the counters go on from the last step.
StepResultAccumulating(inp, round_up) ==
    EpisodeEndLoop(
        PictureLoop([taken |-> _taken_picture_list,
                     target |-> _target_index_list,
                     observed |-> _observed_object_ci_one,
                     ci |-> [n \in Envs |-> 0],
                     object_num |-> [n \in Envs |-> 0],
                     reward |-> [n \in Envs |-> 0],
                     scored |-> [n \in Envs |->
                                    [ci |-> 0, scanned |-> _observed_object_ci_one[n],
                                     deleted |-> _target_index_list[n], idx |-> -1]],
                     rounded |-> [n \in Envs |-> FALSE]],
                    inp, round_up, 0),
        inp, 0)

\* One pass of the step loop of train (lines 715-725): the counters are
\* zeroed for every instance, then _collect_rollout_step runs.
StepResult(inp, round_up) ==
    EpisodeEndLoop(
        PictureLoop([taken |-> _taken_picture_list,
                     target |-> _target_index_list,
                     observed |-> [n \in Envs |-> << 0, 0, 0 >>],
                     ci |-> [n \in Envs |-> 0],
                     object_num |-> [n \in Envs |-> 0],
                     reward |-> [n \in Envs |-> 0],
                     scored |-> [n \in Envs |->
                                    [ci |-> 0, scanned |-> << 0, 0, 0 >>,
                                     deleted |-> _target_index_list[n], idx |-> -1]],
                     rounded |-> [n \in Envs |-> FALSE]],
                    inp, round_up, 0),
        inp, 0)

\* Lines 532 and 553: the ci of the step is added to current_episode_ci,
\* which is multiplied by masks, 0.0 for an instance whose episode ended.
EpisodeCi(step_ci, inp) ==
    [n \in Envs |-> IF inp[n].done THEN 0 ELSE current_episode_ci[n] + step_ci[n]]

NoRounding == [n \in Envs |-> FALSE]

\* The rounding outcomes to try after the step gave plain without rounding:
\* one more result per instance whose comparison rounding decided.
Roundings(plain) ==
    { q \in [Envs -> BOOLEAN] : \A n \in Envs : q[n] => plain.rounded[n] }

\* What a step of the training leaves, st being the outcome of its loops on
\* the inputs inp.
Leave(st, inp) ==
    /\ num_envs' = num_envs
    /\ _taken_picture_list' = st.taken
    /\ _target_index_list' = st.target
    /\ _observed_object_ci_one' = st.observed
    /\ picture' = [n \in Envs |-> inp[n].picture]
    /\ infos' = [n \in Envs |-> inp[n].info]
    /\ dones' = [n \in Envs |-> inp[n].done]
    /\ ci' = st.ci
    /\ object_num' = st.object_num
    /\ reward' = st.reward
    /\ current_episode_ci' = EpisodeCi(st.ci, inp)
    /\ scored' = st.scored

Step(inputs) ==
    \E inp \in [Envs -> inputs] :
        \E plain \in { StepResult(inp, NoRounding) } :
            \E round_up \in Roundings(plain) :
                \E st \in { IF round_up = NoRounding THEN plain ELSE StepResult(inp, round_up) } :
                    Leave(st, inp)

\* the step loop of train on the maps of Infos
CollectRolloutStep == Step(StepInputs) /\ UNCHANGED << args, result, eval >>

Next == CollectRolloutStep

Spec == Init /\ [][Next]_vars

\* Pictures for the tracking of targets over many steps: part of one
\* category, all of two, all of the second, all of the three.
LiveMasks ==
    { << Shown(0, 10), Hidden, Hidden >>,
      << Shown(0, Width - 1), Shown(0, Width - 1), Hidden >>,
      << Hidden, Shown(0, Width - 1), Hidden >>,
      << Shown(0, Width), Shown(0, Width), Shown(0, Width) >> }

LiveInputs ==
    { [picture |-> TRUE,
       info |-> [top_map |-> RoomMap, top_down_map |-> RoomMap, fog_of_war_map |-> f],
       done |-> d] : f \in LiveMasks, d \in BOOLEAN }
    \cup { [picture |-> FALSE, info |-> IdleInfo, done |-> d] : d \in BOOLEAN }

CollectRolloutStepLive == Step(LiveInputs) /\ UNCHANGED << args, result, eval >>

NextLive == CollectRolloutStepLive

\* The step loop of train goes on while steps are left to take
\* (lines 702-725).
SpecLive == Init /\ [][NextLive]_vars /\ WF_vars(CollectRolloutStepLive)

\* the step loop of train on the maps of HallInfos
CollectRolloutStepHall == Step(HallInputs) /\ UNCHANGED << args, result, eval >>

NextHall == CollectRolloutStepHall

SpecHall == InitHall /\ [][NextHall]_vars

\* ------------------------------------------------------------ two instances

\* The pictures two instances take side by side: ten cells of the first
\* category, cells of all three, and enough of the first to exhaust it.
PairMasks ==
    { << Shown(0, 10), Hidden, Hidden >>,
      << Shown(0, 4), Shown(0, 4), Shown(0, 8) >>,
      << Shown(0, Width - 1), Shown(0, 5), Hidden >> }

PairInputs ==
    { [picture |-> TRUE,
       info |-> [top_map |-> RoomMap, top_down_map |-> RoomMap, fog_of_war_map |-> f],
       done |-> FALSE] : f \in PairMasks }
    \cup { [picture |-> FALSE, info |-> IdleInfo, done |-> d] : d \in BOOLEAN }

\* training with two instances in the room
InitPair == TrainInit(2, IdleInfo) /\ NoCall /\ NoEval

CollectRolloutStepPair == Step(PairInputs) /\ UNCHANGED << args, result, eval >>

NextPair == CollectRolloutStepPair

SpecPair == InitPair /\ [][NextPair]_vars

\* ------------------------------------------------------------ evaluation

\* _eval_checkpoint keeps a trainer of its own: eval.envs is self.envs, the
\* batch, as the list of the environments in it (an environment is known by
\* the place it had in the batch at the start); the lists of lines 976-983
\* have one entry per environment of the start and are never shortened;
\* ci, object_num, reward are those of the last step, one entry per place of
\* the batch; current_episode_ci is the tensor of line 996; stats_episodes is
\* len(stats_episodes).  list_env tells, for each entry of the lists, the
\* environment whose step last read and wrote it.

\* What one step hands to one place of the batch: as in training, and
\* whether the next episode of the environment is in stats_episodes already
\* (line 1193), which it can be once its episode has ended and
\* stats_episodes holds an episode.
EvalInputs ==
    { [picture |-> TRUE,
       info |-> [top_map |-> RoomMap, top_down_map |-> RoomMap, fog_of_war_map |-> f],
       done |-> FALSE, pause |-> FALSE] : f \in PairMasks }
    \cup { [picture |-> FALSE, info |-> IdleInfo, done |-> dp[1], pause |-> dp[2]] :
               dp \in { << FALSE, FALSE >>, << TRUE, FALSE >>, << TRUE, TRUE >> } }

\* the places 0 .. len(observations) - 1 of the batch
Places == 0 .. (Len(eval.envs) - 1)

\* _eval_checkpoint, lines 971-1000, before the first step
EvalInit(envs) ==
    eval = [envs |-> [p \in 1 .. envs |-> p - 1],
            _taken_picture_list |-> [n \in 0 .. (envs - 1) |-> << >>],
            _target_index_list |-> [n \in 0 .. (envs - 1) |-> TargetInit],
            _observed_object_ci_one |-> [n \in 0 .. (envs - 1) |-> << 0, 0, 0 >>],
            ci |-> [n \in 0 .. (envs - 1) |-> 0],
            object_num |-> [n \in 0 .. (envs - 1) |-> 0],
            reward |-> [n \in 0 .. (envs - 1) |-> 0],
            current_episode_ci |-> [n \in 0 .. (envs - 1) |-> 0],
            stats_episodes |-> 0,
            list_env |-> [n \in 0 .. (envs - 1) |-> n]]

\* Body of the loop of line 1097 for place n of the batch (lines 1099-1167,
\* which repeat lines 415-481 of _collect_rollout_step statement by
\* statement; lines 1106-1165 are those KeepPicture stands for).
EvalPictureBody(st, inp, round_up, n) ==
    IF inp[n].picture
    THEN LET picture_range_map ==
                 _create_picture_range_map(inp[n].info.top_down_map, inp[n].info.fog_of_war_map)
             t == _do_take_picture_object(inp[n].info.top_map, inp[n].info.fog_of_war_map,
                                          st.target[n], st.observed[n])
             st1 == [st EXCEPT !.target[n] = t.target,
                               !.observed[n] = t.observed,
                               !.object_num[n] = t.object_num]
         IN  IF t.ci = 0
             THEN [st1 EXCEPT !.ci[n] = 0]
             ELSE LET k == KeepPicture(st.taken[n], t.ci, picture_range_map, round_up[n])
                  IN  [st1 EXCEPT !.taken[n] = k.taken,
                                  !.ci[n] = k.ci,
                                  !.reward[n] = k.reward,
                                  !.rounded[n] = k.rounded]
    ELSE [st EXCEPT !.ci[n] = 0]

\* for n in range(len(observations)), line 1097
RECURSIVE EvalPictureLoop(_, _, _, _)
EvalPictureLoop(st, inp, round_up, n) ==
    IF n >= Len(eval.envs) THEN st
    ELSE EvalPictureLoop(EvalPictureBody(st, inp, round_up, n), inp, round_up, n + 1)

\* for i in range(n_envs), lines 1192-1330: the places whose environment is
\* to be paused are collected, and for an episode that ended its statistics
\* go to stats_episodes (an episode not yet in it: an environment about to
\* repeat an episode is paused) and the sum of the episode and the lists at
\* place i are reset.
RECURSIVE EvalEpisodeLoop(_, _, _)
EvalEpisodeLoop(st, inp, i) ==
    IF i >= Len(eval.envs) THEN st
    ELSE LET st1 == IF inp[i].pause
                    THEN [st EXCEPT !.envs_to_pause = Append(st.envs_to_pause, i)]
                    ELSE st
         IN  EvalEpisodeLoop(IF inp[i].done
                             THEN [st1 EXCEPT !.current_episode_ci[i] = 0,
                                              !.stats_episodes = st.stats_episodes + 1,
                                              !.taken[i] = << >>,
                                              !.target[i] = TargetInit]
                             ELSE st1,
                             inp, i + 1)

\* The inputs a pass can meet: the next episode of the environment at place i
\* is in stats_episodes only if stats_episodes holds an episode when the test
\* of line 1193 is made for place i.
CanMeet(inp) ==
    \A i \in Places :
        inp[i].pause
        => eval.stats_episodes + Cardinality({ j \in Places : j < i /\ inp[j].done }) > 0

\* The places of the batch that stay: all but those of envs_to_pause.
StateIndex(envs_to_pause, envs) ==
    SelectSeq([p \in 1 .. Len(envs) |-> p - 1], LAMBDA i : ~PyIn(i, envs_to_pause))

\* _pause_envs, called at line 1349 with envs_to_pause, self.envs and the
\* tensors of the batch: the environments of envs_to_pause leave the batch and
\* the entries of the tensors at their places are dropped, so that the
\* environments and entries behind them move up.  The lists of
\* self._taken_picture_list, self._target_index_list and
\* self._observed_object_ci_one are not handed to it.
_pause_envs(envs_to_pause, envs, tensor) ==
    LET state_index == StateIndex(envs_to_pause, envs)
    IN  [envs |-> [p \in 1 .. Len(state_index) |-> envs[state_index[p] + 1]],
         current_episode_ci |->
             [n \in 0 .. (Len(state_index) - 1) |-> tensor[state_index[n + 1]]]]

\* One pass of the while loop of _eval_checkpoint up to the call of
\* _pause_envs (lines 1061-1330) on the inputs inp, one per place.
EvalResult(inp, round_up) ==
    LET scored_ == EvalPictureLoop(
                       [taken |-> eval._taken_picture_list,
                        target |-> eval._target_index_list,
                        observed |-> [n \in DOMAIN eval._observed_object_ci_one |->
                                         IF n \in Places THEN << 0, 0, 0 >>
                                         ELSE eval._observed_object_ci_one[n]],
                        ci |-> [n \in Places |-> 0],
                        object_num |-> [n \in Places |-> 0],
                        reward |-> [n \in Places |-> 0],
                        rounded |-> [n \in Places |-> FALSE]],
                       inp, round_up, 0)
    IN  EvalEpisodeLoop(
            [taken |-> scored_.taken,
             target |-> scored_.target,
             observed |-> scored_.observed,
             ci |-> scored_.ci,
             object_num |-> scored_.object_num,
             reward |-> scored_.reward,
             rounded |-> scored_.rounded,
             current_episode_ci |->
                 [n \in Places |-> eval.current_episode_ci[n] + scored_.ci[n]],
             stats_episodes |-> eval.stats_episodes,
             envs_to_pause |-> << >>],
            inp, 0)

\* What the pass leaves: the lists as the loops left them, the batch and the
\* tensor as _pause_envs returned them.
EvalLeave(st) ==
    LET paused == _pause_envs(st.envs_to_pause, eval.envs, st.current_episode_ci)
    IN  eval' = [envs |-> paused.envs,
                 _taken_picture_list |-> st.taken,
                 _target_index_list |-> st.target,
                 _observed_object_ci_one |-> st.observed,
                 ci |-> st.ci,
                 object_num |-> st.object_num,
                 reward |-> st.reward,
                 current_episode_ci |-> paused.current_episode_ci,
                 stats_episodes |-> st.stats_episodes,
                 list_env |-> [n \in DOMAIN eval.list_env |->
                                  IF n \in Places THEN eval.envs[n + 1] ELSE eval.list_env[n]]]

\* The place of environment e in the batch, -1 when it has left it.
PlaceOf(e) ==
    IF PyIn(e, eval.envs)
    THEN (CHOOSE p \in 1 .. Len(eval.envs) : eval.envs[p] = e) - 1
    ELSE -1

\* What the training is handed for environment e when it is handed what the
\* evaluation is handed: the inputs of the place of e, nothing to do for an
\* environment that has left the batch.
TrainInputs(inp) ==
    [e \in Envs |->
        IF PlaceOf(e) >= 0
        THEN [picture |-> inp[PlaceOf(e)].picture, info |-> inp[PlaceOf(e)].info,
              done |-> inp[PlaceOf(e)].done]
        ELSE [picture |-> FALSE, info |-> IdleInfo, done |-> FALSE]]

\* One pass of the while loop of _eval_checkpoint (lines 1026-1362), and next
\* to it one step of the training on the same inputs.  A comparison that
\* rounding decides is decided the same way for an environment in both.
EvalStep ==
    /\ eval.stats_episodes < TEST_EPISODE_COUNT
    /\ Len(eval.envs) > 0
    /\ \E inp \in { i \in [Places -> EvalInputs] : CanMeet(i) } :
       \E tinp \in { TrainInputs(inp) } :
       \E plain \in { EvalResult(inp, [n \in Places |-> FALSE]) } :
       \E tplain \in { StepResult(tinp, NoRounding) } :
       \E round_up \in { q \in [Envs -> BOOLEAN] :
                           \A e \in Envs :
                               q[e] => \/ tplain.rounded[e]
                                       \/ PlaceOf(e) >= 0 /\ plain.rounded[PlaceOf(e)] } :
           /\ EvalLeave(IF round_up = NoRounding THEN plain
                        ELSE EvalResult(inp, [n \in Places |-> round_up[eval.envs[n + 1]]]))
           /\ Leave(IF round_up = NoRounding THEN tplain ELSE StepResult(tinp, round_up), tinp)
    /\ UNCHANGED << args, result >>

\* an evaluation of two environments, and a training of the two
InitEval == TrainInit(2, IdleInfo) /\ NoCall /\ EvalInit(2)

NextEval == EvalStep

SpecEval == InitEval /\ [][NextEval]_vars

\* ------------------------------------------------------------ helper methods on their own

\* Shapes (rows, columns) of the grids the helper methods are called on.
MapShapes == { << 2, 2 >>, << 1, 2 >> }

\* The grids of a shape with cells from values.
Grids(shape, values) == [1 .. shape[1] -> [1 .. shape[2] -> values]]

\* Coverage maps: 0 wall, 1 photographed, 2 traversable.
CoverageMaps == UNION { Grids(shape, { 0, 1, 2 }) : shape \in MapShapes }

\* _check_percentage_of_fog(fog_map, pre_fog_map)
CheckArgs ==
    { [fn |-> "_check_percentage_of_fog", fog_map |-> a, pre_fog_map |-> b] :
          a \in CoverageMaps, b \in CoverageMaps }

\* _create_picture_range_map(top_down_map, fog_of_war_map): a top-down map
\* of wall, floor and target cells, and a mask of the same shape.
CreateArgs ==
    UNION { { [fn |-> "_create_picture_range_map", top_down_map |-> t, fog_of_war_map |-> f] :
                  t \in Grids(shape, { 0, 1, MAP_TARGET_POINT_INDICATOR }),
                  f \in Grids(shape, { 0, 1 }) } : shape \in MapShapes }

\* The lists cover_list the loop of line 431 can build over three kept
\* pictures: positions in ascending order.
CoverLists ==
    { << >>, << 0 >>, << 1 >>, << 2 >>, << 0, 1 >>, << 0, 2 >>, << 1, 2 >>, << 0, 1, 2 >> }

\* Maps of one row for the calls of _cal_rate_of_fog_other.
RowMaps == Grids(<< 1, 2 >>, { 1, 2 })

\* _cal_rate_of_fog_other(fog_map, pre_fog_of_war_map_list, cover_list, idx):
\* idx is a position of cover_list, or -1 when the search found none.
RateArgs ==
    UNION { { [fn |-> "_cal_rate_of_fog_other", fog_map |-> a, pre_fog_of_war_map_list |-> l,
               cover_list |-> c, idx |-> i] :
                  a \in RowMaps, l \in [1 .. 3 -> RowMaps],
                  i \in { -1 } \cup { c[p] : p \in 1 .. Len(c) } } : c \in CoverLists }

\* per of _check_percentage_of_fog (lines 864-867) as a fraction.
PercentageOfFog(fog_map, pre_fog_map) ==
    LET c == FogCount(fog_map, pre_fog_map)
    IN  IF c.num = 0 THEN [num |-> 0, den |-> 1] ELSE [num |-> c.num_covered, den |-> c.num]

SameShape(a, b) == Len(a) = Len(b) /\ Len(a[1]) = Len(b[1])

\* One call of _check_percentage_of_fog; per is recorded when the method
\* computes it.
CallCheckPercentageOfFog ==
    /\ args.fn = "_check_percentage_of_fog"
    /\ result' = [fn |-> "_check_percentage_of_fog",
                  value |-> _check_percentage_of_fog(args.fog_map, args.pre_fog_map),
                  per |-> IF SameShape(args.fog_map, args.pre_fog_map)
                          THEN PercentageOfFog(args.fog_map, args.pre_fog_map)
                          ELSE [num |-> -1, den |-> -1]]
    /\ UNCHANGED << train_vars, args, eval >>

\* Two calls of _check_percentage_of_fog on the same two maps, one each way.
CallCheckBothWays ==
    /\ args.fn = "_check_percentage_of_fog"
    /\ SameShape(args.fog_map, args.pre_fog_map)
    /\ result' = [fn |-> "both ways",
                  per |-> PercentageOfFog(args.fog_map, args.pre_fog_map),
                  back |-> PercentageOfFog(args.pre_fog_map, args.fog_map)]
    /\ UNCHANGED << train_vars, args, eval >>

CallCreatePictureRangeMap ==
    /\ args.fn = "_create_picture_range_map"
    /\ result' = [fn |-> "_create_picture_range_map",
                  value |-> _create_picture_range_map(args.top_down_map, args.fog_of_war_map)]
    /\ UNCHANGED << train_vars, args, eval >>

CallCalRateOfFogOther ==
    /\ args.fn = "_cal_rate_of_fog_other"
    /\ result' = [fn |-> "_cal_rate_of_fog_other",
                  value |-> _cal_rate_of_fog_other(args.fog_map, args.pre_fog_of_war_map_list,
                                                   args.cover_list, args.idx)]
    /\ UNCHANGED << train_vars, args, eval >>

InitCalls ==
    /\ TrainInit(1, IdleInfo)
    /\ args \in CheckArgs \cup CreateArgs \cup RateArgs
    /\ result = [fn |-> "none"]
    /\ NoEval

NextCalls ==
    \/ CallCheckPercentageOfFog
    \/ CallCheckBothWays
    \/ CallCreatePictureRangeMap
    \/ CallCalRateOfFogOther

SpecCalls == InitCalls /\ [][NextCalls]_vars

\* ------------------------------------------------------------ properties

\* The cells a coverage map has photographed.
Covered(map) == { p \in Cells(map) : map[p[1]][p[2]] = 1 }

\* A new map overlaps a kept one significantly: it has photographed cells and
\* at least a quarter of them are photographed in the kept map too.
Overlaps(map, kept) ==
    LET cells == Covered(map)
    IN  /\ cells # {}
        /\ 4 * Cardinality({ p \in cells : kept[p[1]][p[2]] = 1 }) >= Cardinality(cells)

\* The positions (1-based) of the slots that map overlaps significantly.
CoveredBy(map, slots) ==
    LET cells == Covered(map)
    IN  { m \in 1 .. Len(slots) :
            /\ cells # {}
            /\ 4 * Cardinality({ p \in cells : slots[m][2][p[1]][p[2]] = 1 })
                   >= Cardinality(cells) }

\* The coverage map of the picture of the step just taken / being taken.
CurMap(n) == _create_picture_range_map(infos[n].top_down_map, infos[n].fog_of_war_map)
NewMap(n) == _create_picture_range_map(infos'[n].top_down_map, infos'[n].fog_of_war_map)

\* The step being taken attempts a capture with a positive score for n.
Attempt(n) == picture'[n] /\ scored'[n].ci > 0

\* The lowest score among the slots at the positions of set.
Lowest(slots, set) == CHOOSE v \in { slots[m][1] : m \in set } :
                          \A m \in set : v <= slots[m][1]

\* C1: after every step, whatever it was (a capture with any score and map,
\* no capture, the end of an episode), every instance keeps at most
\* NUM_PICTURE pictures.
C1_Capacity == \A n \in Envs : Len(_taken_picture_list[n]) <= NUM_PICTURE

\* A capture with a positive score met a full list and was turned down.
C1_Witness ==
    \E n \in Envs :
        /\ picture[n] /\ scored[n].ci > 0 /\ ~dones[n]
        /\ ci[n] = 0
        /\ Len(_taken_picture_list[n]) = NUM_PICTURE

\* C2: a capture at full capacity that overlaps no kept slot replaces exactly
\* the lowest-scoring slot when that slot's score is strictly below the new
\* score, with reward delta new score minus replaced score; otherwise the
\* slots are unchanged and the delta is 0.
C2_ReplaceWeakest ==
    [][\A n \in Envs :
        LET slots == _taken_picture_list[n]
            new == scored'[n].ci
            low == Lowest(slots, 1 .. Len(slots))
        IN  (/\ Attempt(n)
             /\ Len(slots) = NUM_PICTURE
             /\ CoveredBy(NewMap(n), slots) = {})
            => IF low < new
               THEN /\ reward'[n] = new - low
                    /\ ~dones'[n] =>
                          \E m \in 1 .. Len(slots) :
                              /\ slots[m][1] = low
                              /\ _taken_picture_list'[n] =
                                     [slots EXCEPT ![m] = << new, NewMap(n) >>]
               ELSE /\ reward'[n] = 0
                    /\ ~dones'[n] => _taken_picture_list'[n] = slots
      ]_vars

\* C3: a capture with a positive score that overlaps no kept slot, with fewer
\* than NUM_PICTURE slots kept (none included), is appended as the last slot,
\* the slots kept before stay as they are, and the reward delta is the score.
C3_Append ==
    [][\A n \in Envs :
        LET slots == _taken_picture_list[n]
        IN  (/\ Attempt(n)
             /\ Len(slots) < NUM_PICTURE
             /\ CoveredBy(NewMap(n), slots) = {})
            => /\ reward'[n] = scored'[n].ci
               /\ ci'[n] = scored'[n].ci
               /\ ~dones'[n] =>
                     _taken_picture_list'[n] =
                         Append(slots, << scored'[n].ci, NewMap(n) >>)
      ]_vars

\* A picture was appended behind a kept one that it does not overlap.
C3_Witness ==
    \E n \in Envs :
        LET slots == _taken_picture_list[n]
        IN  /\ picture[n] /\ scored[n].ci > 0 /\ ~dones[n]
            /\ Len(slots) >= 2
            /\ slots[Len(slots)] = << scored[n].ci, CurMap(n) >>
            /\ CoveredBy(CurMap(n), SubSeq(slots, 1, Len(slots) - 1)) = {}
            /\ reward[n] = scored[n].ci

\* The first position of set whose slot has the lowest score of set.
Victim(slots, set) ==
    CHOOSE m \in set : /\ slots[m][1] = Lowest(slots, set)
                       /\ \A q \in set : slots[q][1] = Lowest(slots, set) => m <= q

\* The photographed cells of map that a slot at a position of others has
\* photographed too.
OthersCover(map, slots, others) ==
    { p \in Covered(map) : \E o \in others : slots[o][2][p[1]][p[2]] = 1 }

\* C4: a capture that overlaps kept slots has as its candidate the
\* lowest-scoring slot m among those it overlaps; m is replaced by (raw
\* score, map), all other slots staying as they are, iff the raw score
\* discounted by the fraction of the new map's photographed cells that the
\* other overlapped slots photographed is strictly greater than the score of
\* m; otherwise nothing changes.  (Where the discounted score equals the score
\* of m exactly, either outcome is accepted: the comparison is made on
\* floating-point numbers.)
C4_ReplaceCovered ==
    [][\A n \in Envs :
        (Attempt(n) /\ ~dones'[n])
        => \A slots \in { _taken_picture_list[n] } :
           \A map \in { NewMap(n) } :
           \A cov \in { CoveredBy(map, slots) } :
               cov # {}
               => \A m \in { Victim(slots, cov) } :
                  \A num \in { Cardinality(Covered(map)) } :
                  \A rest \in { num - Cardinality(OthersCover(map, slots, cov \ {m})) } :
                  \A replaced \in { [slots EXCEPT ![m] = << scored'[n].ci, map >>] } :
                      /\ scored'[n].ci * rest > slots[m][1] * num
                             => _taken_picture_list'[n] = replaced
                      /\ scored'[n].ci * rest < slots[m][1] * num
                             => _taken_picture_list'[n] = slots
                      /\ _taken_picture_list'[n] \in { slots, replaced }
      ]_vars

\* C5 as stated: when the overlap branch replaces slot m, the reward delta is
\* the discounted score minus the old score of m.
C5_AdjustedDelta ==
    [][\A n \in Envs :
        (Attempt(n) /\ ~dones'[n] /\ _taken_picture_list'[n] # _taken_picture_list[n])
        => \A slots \in { _taken_picture_list[n] } :
           \A map \in { NewMap(n) } :
           \A cov \in { CoveredBy(map, slots) } :
               cov # {}
               => \A m \in { CHOOSE q \in 1 .. Len(slots) :
                                 _taken_picture_list'[n][q] # slots[q] } :
                  \A num \in { Cardinality(Covered(map)) } :
                  \A rest \in { num - Cardinality(OthersCover(map, slots, cov \ {m})) } :
                      reward'[n] * num = scored'[n].ci * rest - slots[m][1] * num
      ]_vars

\* What the search of the overlap branch finds: the lowest score among the
\* overlapped slots, or MIN_CI_K_INIT when none of them is below it.
FoundLowest(slots, set) ==
    IF Lowest(slots, set) < MIN_CI_K_INIT THEN Lowest(slots, set) ELSE MIN_CI_K_INIT

\* C5: when the overlap branch replaces a slot, the reward delta is the raw
\* score minus the lowest score found among the overlapped slots (the
\* discount decides the replacement and is not in the delta); when it
\* replaces none, the delta is 0.
C5_RawDelta ==
    [][\A n \in Envs :
        Attempt(n)
        => \A slots \in { _taken_picture_list[n] } :
           \A cov \in { CoveredBy(NewMap(n), slots) } :
               cov # {}
               => \A delta \in { scored'[n].ci - FoundLowest(slots, cov) } :
                      /\ reward'[n] \in { 0, delta }
                      /\ (~dones'[n] /\ _taken_picture_list'[n] # slots) => reward'[n] = delta
                      /\ (~dones'[n] /\ _taken_picture_list'[n] = slots) => reward'[n] = 0
      ]_vars

\* A picture replaced a kept one while another kept one, still there,
\* overlaps it too: the discount was positive.
C5_Witness ==
    \E n \in Envs :
        LET slots == _taken_picture_list[n]
        IN  /\ picture[n] /\ scored[n].ci > 0 /\ ~dones[n]
            /\ 0 < reward[n] /\ reward[n] < scored[n].ci
            /\ \E m \in 1 .. Len(slots) :
                   /\ slots[m] = << scored[n].ci, CurMap(n) >>
                   /\ \E o \in 1 .. Len(slots) :
                          o # m /\ Overlaps(CurMap(n), slots[o][2])

\* C6: a capture whose score is zero or negative leaves the slots of its
\* instance as they are and yields reward delta 0, whatever the slots and the
\* coverage map.
C6_NoScoreNoChange ==
    [][\A n \in Envs :
        (picture'[n] /\ scored'[n].ci <= 0)
        => /\ reward'[n] = 0
           /\ ci'[n] = 0
           /\ ~dones'[n] => _taken_picture_list'[n] = _taken_picture_list[n]
      ]_vars

\* A capture that photographed cells but scored nothing met kept pictures.
C6_Witness ==
    \E n \in Envs :
        /\ picture[n] /\ scored[n].ci = 0 /\ ~dones[n]
        /\ Covered(CurMap(n)) # {}
        /\ Len(_taken_picture_list[n]) >= 1
        /\ reward[n] = 0

\* The members of a list.
Members(list) == { list[p] : p \in 1 .. Len(list) }

\* C7: when the pruning of a capture is over, every category that was in the
\* target list with a counter above TARGET_THRESHOLD_ONE is out of it, and no
\* category with a counter at or below it has been removed.
C7_PruneObserved ==
    [][\A n \in Envs :
        picture'[n]
        => \A c \in Members(_target_index_list[n]) :
               (scored'[n].scanned[c - MAP_TARGET_POINT_INDICATOR + 1] > TARGET_THRESHOLD_ONE)
               <=> (c \notin Members(scored'[n].deleted))
      ]_vars

\* C8: the number of exhausted categories a capture returns is the number of
\* categories its pruning removed: the length of the target list before the
\* pruning minus its length after it, before any reset.
C8_ExhaustedCount ==
    [][\A n \in Envs :
        picture'[n]
        => object_num'[n] = Len(_target_index_list[n]) - Len(scored'[n].deleted)
      ]_vars

\* A capture whose pruning removed two categories at once.
C8_Witness ==
    \E n \in Envs :
        /\ picture[n]
        /\ object_num[n] = 2
        /\ Len(scored[n].deleted) = 1

\* C9: a pruning that leaves the target list empty is followed, in the same
\* call, by the reset of the list to the three categories and of the three
\* counters to zero; a pruning that leaves it non-empty is followed by neither.
C9_Reseed ==
    [][\A n \in Envs :
        picture'[n]
        => IF scored'[n].deleted = << >>
           THEN /\ _target_index_list'[n] = TargetInit
                /\ _observed_object_ci_one'[n] = << 0, 0, 0 >>
           ELSE /\ ~dones'[n] => _target_index_list'[n] = scored'[n].deleted
                /\ _observed_object_ci_one'[n] = scored'[n].scanned
      ]_vars

\* A capture emptied the target list, which was reset with the counters.
C9_Witness ==
    \E n \in Envs :
        /\ picture[n] /\ ~dones[n]
        /\ scored[n].deleted = << >>
        /\ \E c \in 1 .. 3 : scored[n].scanned[c] > TARGET_THRESHOLD_ONE
        /\ _target_index_list[n] = TargetInit
        /\ _observed_object_ci_one[n] = << 0, 0, 0 >>

\* The cells of category c that the mask fog shows on the map top.
Shows(top, fog, c) ==
    { p \in Cells(top) : fog[p[1]][p[2]] = 1 /\ top[p[1]][p[2]] = c }

\* C10: a capture counts the cells where the mask is 1 and the map holds a
\* category of the target list as it was when the call began, and adds to
\* the counter of each category the number of such cells of that category;
\* categories outside the target list add nothing.  (The counters are zero
\* when the call begins.)
C10_CellsObserved ==
    [][\A n \in Envs :
        LET top == infos'[n].top_map
            fog == infos'[n].fog_of_war_map
            hits == [k \in 0 .. 2 |->
                        IF MAP_TARGET_POINT_INDICATOR + k \in Members(_target_index_list[n])
                        THEN Cardinality(Shows(top, fog, MAP_TARGET_POINT_INDICATOR + k))
                        ELSE 0]
        IN  picture'[n]
            => /\ scored'[n].ci = hits[0] + hits[1] + hits[2]
               /\ \A k \in 0 .. 2 : scored'[n].scanned[k + 1] = hits[k]
      ]_vars

\* A capture counted cells of one category and showed cells of another one,
\* not in the target list, that it did not count.
C10_Witness ==
    \E n \in Envs :
        /\ picture[n] /\ scored[n].ci > 0
        /\ \E k \in 0 .. 2 :
               /\ Shows(infos[n].top_map, infos[n].fog_of_war_map,
                        MAP_TARGET_POINT_INDICATOR + k) # {}
               /\ scored[n].scanned[k + 1] = 0

\* The photographed cells of map that kept has photographed too.
Shared(map, kept) == { p \in Covered(map) : kept[p[1]][p[2]] = 1 }

\* C11: on maps of equal shape the overlap ratio of a against b is the number
\* of cells photographed in both over the number photographed in a, and 0
\* when a has none; _check_percentage_of_fog returns true exactly when the
\* ratio is at least 1/4.
C11_OverlapRatio ==
    (result.fn = "_check_percentage_of_fog" /\ SameShape(args.fog_map, args.pre_fog_map))
    => LET all == Cardinality(Covered(args.fog_map))
           both == Cardinality(Shared(args.fog_map, args.pre_fog_map))
       IN  /\ all = 0 => result.per.num = 0
           /\ all # 0 => result.per.num * all = both * result.per.den
           /\ result.per.den > 0
           /\ result.value \in { "True", "False" }
           /\ result.value = "True" <=> (all # 0 /\ 4 * both >= all)

\* The ratio was exactly 1/4 and the answer true.
C11_Witness ==
    /\ result.fn = "_check_percentage_of_fog"
    /\ SameShape(args.fog_map, args.pre_fog_map)
    /\ Cardinality(Covered(args.fog_map)) = 4
    /\ Cardinality(Shared(args.fog_map, args.pre_fog_map)) = 1
    /\ result.value = "True"

\* C12: comparing a coverage map with a map of another shape ends in an
\* error; it does not return an answer that the caller takes for no overlap.
C12_MismatchIsError ==
    (result.fn = "_check_percentage_of_fog" /\ ~SameShape(args.fog_map, args.pre_fog_map))
    => result.value = "Error"

\* C13: _create_picture_range_map returns a map of the shape of the top-down
\* map whose cell is 0 where the top-down cell is 0, 1 where the top-down
\* cell is not 0 and the mask cell is 1, and 2 elsewhere; each cell has one
\* of the three values and the three counts add up to the number of cells.
C13_Build ==
    result.fn = "_create_picture_range_map"
    => LET top == args.top_down_map
           fog == args.fog_of_war_map
           map == result.value
           count(v) == Cardinality({ p \in Cells(top) : map[p[1]][p[2]] = v })
       IN  /\ DOMAIN map = DOMAIN top
           /\ \A i \in DOMAIN top : DOMAIN map[i] = DOMAIN top[i]
           /\ \A i \in DOMAIN top : \A j \in DOMAIN top[i] :
                  map[i][j] = IF top[i][j] = 0 THEN 0
                              ELSE IF fog[i][j] = 1 THEN 1 ELSE 2
           /\ count(0) + count(1) + count(2) = Len(top) * Len(top[1])

\* A map with all three values, one of its wall cells under a mask cell of 1.
C13_Witness ==
    /\ result.fn = "_create_picture_range_map"
    /\ \A v \in { 0, 1, 2 } :
           \E p \in Cells(result.value) : result.value[p[1]][p[2]] = v
    /\ \E p \in Cells(result.value) :
           /\ args.top_down_map[p[1]][p[2]] = 0
           /\ args.fog_of_war_map[p[1]][p[2]] = 1
           /\ result.value[p[1]][p[2]] = 0

\* C19 as stated: on maps of equal shape, equal overlap ratios in the two
\* directions imply equal numbers of photographed cells.
C19_EqualOnlyIfSameCount ==
    result.fn = "both ways"
    => (result.per.num * result.back.den = result.back.num * result.per.den
        => Cardinality(Covered(args.fog_map)) = Cardinality(Covered(args.pre_fog_map)))

\* C19: on maps of equal shape the overlap ratios in the two directions are
\* equal exactly when the maps have the same number of photographed cells or
\* share no photographed cell.
C19_EqualIffSameCountOrDisjoint ==
    result.fn = "both ways"
    => (result.per.num * result.back.den = result.back.num * result.per.den
        <=> \/ Cardinality(Covered(args.fog_map)) = Cardinality(Covered(args.pre_fog_map))
            \/ Shared(args.fog_map, args.pre_fog_map) = {})

\* The two directions gave different ratios, neither of them 0.
C19_Witness ==
    /\ result.fn = "both ways"
    /\ result.per.num > 0 /\ result.back.num > 0
    /\ result.per.num * result.back.den # result.back.num * result.per.den

\* C20: _cal_rate_of_fog_other returns the number of photographed cells of
\* the new map that a map of cover_list other than the one at idx has
\* photographed, each cell once, over the number of photographed cells of
\* the new map; it is 0 when cover_list holds only idx or the new map has no
\* photographed cell, and maps outside cover_list count for nothing.
C20_RateAgainstOthers ==
    result.fn = "_cal_rate_of_fog_other"
    => LET others == { args.cover_list[p] : p \in 1 .. Len(args.cover_list) } \ { args.idx }
           cells == Covered(args.fog_map)
           hit == { p \in cells :
                      \E o \in others : args.pre_fog_of_war_map_list[o + 1][p[1]][p[2]] = 1 }
       IN  /\ result.value.num = Cardinality(cells)
           /\ result.value.num_covered = Cardinality(hit)
           /\ (others = {} \/ cells = {}) => result.value.num_covered = 0

\* Two maps of cover_list other than idx photographed the same cell of the
\* new map, which counted once, and the map at idx and a map outside
\* cover_list photographed a cell that did not count.
C20_Witness ==
    /\ result.fn = "_cal_rate_of_fog_other"
    /\ Len(args.cover_list) = 2 /\ args.idx = -1
    /\ result.value.num = 2 /\ result.value.num_covered = 1
    /\ \E p \in Covered(args.fog_map) :
           \A o \in 1 .. 2 :
               args.pre_fog_of_war_map_list[args.cover_list[o] + 1][p[1]][p[2]] = 1
    /\ \E p \in Covered(args.fog_map) :
           /\ \A o \in 1 .. 2 :
                  args.pre_fog_of_war_map_list[args.cover_list[o] + 1][p[1]][p[2]] # 1
           /\ \E o \in 1 .. 3 : args.pre_fog_of_war_map_list[o][p[1]][p[2]] = 1

\* C14: a step that ends an episode leaves the instance without kept
\* pictures and with the three target categories, and the step after it is
\* scored from there: its counters hold the cells of that step alone, all
\* three categories included, and a picture with a positive score is
\* credited in full.
C14_FreshEpisode ==
    [][\A n \in Envs :
        /\ dones'[n] => /\ _taken_picture_list'[n] = << >>
                        /\ _target_index_list'[n] = TargetInit
        /\ (dones[n] /\ picture'[n])
           => /\ \A k \in 0 .. 2 :
                     scored'[n].scanned[k + 1] =
                         Cardinality(Shows(infos'[n].top_map, infos'[n].fog_of_war_map,
                                           MAP_TARGET_POINT_INDICATOR + k))
              /\ reward'[n] = scored'[n].ci
      ]_vars

\* The step that ended an episode kept a picture and removed a target
\* category; both are gone.
C14_Witness ==
    \E n \in Envs :
        /\ dones[n] /\ picture[n]
        /\ reward[n] > 0
        /\ Len(scored[n].deleted) < 3
        /\ _taken_picture_list[n] = << >>
        /\ _target_index_list[n] = TargetInit

\* C15: the counters are zero when the scoring of a step begins: after the
\* scan no counter exceeds the number of cells of its category that the step
\* shows, and a category is removed only when the step alone shows more than
\* TARGET_THRESHOLD_ONE of its cells.
C15_CountersPerStep ==
    [][\A n \in Envs :
        picture'[n]
        => \A k \in 0 .. 2 :
           \A shown \in { Cardinality(Shows(infos'[n].top_map, infos'[n].fog_of_war_map,
                                            MAP_TARGET_POINT_INDICATOR + k)) } :
               /\ scored'[n].scanned[k + 1] <= shown
               /\ (/\ MAP_TARGET_POINT_INDICATOR + k \in Members(_target_index_list[n])
                   /\ MAP_TARGET_POINT_INDICATOR + k \notin Members(scored'[n].deleted))
                  => shown > TARGET_THRESHOLD_ONE
      ]_vars

\* A kept picture of cells of one category and a later picture of the same
\* category together pass TARGET_THRESHOLD_ONE, and the category is still a
\* target.
C15_Witness ==
    \E n \in Envs :
        /\ picture[n] /\ ~dones[n]
        /\ \E k \in 0 .. 2 :
           \E m \in 1 .. Len(_taken_picture_list[n]) :
               /\ scored[n].scanned[k + 1] > 0
               /\ _taken_picture_list[n][m] # << scored[n].ci, CurMap(n) >>
               /\ \A p \in Covered(_taken_picture_list[n][m][2]) :
                      infos[n].top_map[p[1]][p[2]] = MAP_TARGET_POINT_INDICATOR + k
               /\ _taken_picture_list[n][m][1] + scored[n].scanned[k + 1] > TARGET_THRESHOLD_ONE
               /\ MAP_TARGET_POINT_INDICATOR + k \in Members(_target_index_list[n])

\* C16: a step without a picture leaves the kept pictures and the target
\* list of the instance as they are and the counters at zero, adds nothing
\* to the reward and reports no exhausted category.
C16_NoPicture ==
    [][\A n \in Envs :
        ~picture'[n]
        => /\ reward'[n] = 0
           /\ ci'[n] = 0
           /\ object_num'[n] = 0
           /\ _observed_object_ci_one'[n] = << 0, 0, 0 >>
           /\ ~dones'[n] => /\ _taken_picture_list'[n] = _taken_picture_list[n]
                            /\ _target_index_list'[n] = _target_index_list[n]
      ]_vars

\* A step without a picture had target cells in view, kept pictures and a
\* shortened target list.
C16_Witness ==
    \E n \in Envs :
        /\ ~picture[n] /\ ~dones[n]
        /\ Covered(CurMap(n)) # {}
        /\ Len(_taken_picture_list[n]) >= 1
        /\ Len(_target_index_list[n]) < 3
        /\ reward[n] = 0 /\ object_num[n] = 0

\* C18: every kept picture of every instance has a score that is not negative.
C18_ScoreNotNegative ==
    \A n \in Envs :
        \A m \in 1 .. Len(_taken_picture_list[n]) : _taken_picture_list[n][m][1] >= 0

\* A picture took the place of a kept one with a higher score: the reward
\* went down, the score kept is the picture's own.
C18_Witness ==
    \E n \in Envs :
        /\ picture[n] /\ ~dones[n]
        /\ reward[n] < 0
        /\ \E m \in 1 .. Len(_taken_picture_list[n]) :
               _taken_picture_list[n][m] = << scored[n].ci, CurMap(n) >>

\* The state a step starts from when every instance is given what
\* instance m has, and the inputs when every instance is given those of m in
\* the step being taken.
StartAs(m) ==
    [taken |-> [n \in Envs |-> _taken_picture_list[m]],
     target |-> [n \in Envs |-> _target_index_list[m]],
     observed |-> [n \in Envs |-> << 0, 0, 0 >>],
     ci |-> [n \in Envs |-> 0],
     object_num |-> [n \in Envs |-> 0],
     reward |-> [n \in Envs |-> 0],
     scored |-> [n \in Envs |-> [ci |-> 0, scanned |-> << 0, 0, 0 >>,
                                 deleted |-> _target_index_list[m], idx |-> -1]],
     rounded |-> [n \in Envs |-> FALSE]]

InputOf(m) == [picture |-> picture'[m], info |-> infos'[m], done |-> dones'[m]]

\* The loop of line 413 run from the last instance down to the first.
RECURSIVE PictureLoopDown(_, _, _, _)
PictureLoopDown(st, inp, round_up, n) ==
    IF n < 0 THEN st
    ELSE PictureLoopDown(PictureBody(st, inp, round_up, n), inp, round_up, n - 1)

\* The step being taken left instance m as the record st has it.
LeftAs(st, m) ==
    /\ _taken_picture_list'[m] = st.taken[m]
    /\ _target_index_list'[m] = st.target[m]
    /\ _observed_object_ci_one'[m] = st.observed[m]
    /\ ci'[m] = st.ci[m]
    /\ object_num'[m] = st.object_num[m]
    /\ reward'[m] = st.reward[m]

\* C17: a step leaves every instance m as the pictures, targets and counters
\* of m and the inputs of m alone determine, whatever the other instances
\* hold and do, and as the loop over the instances leaves it when run in the
\* opposite order.
C17_Independent ==
    [][/\ \A m \in Envs :
              \E r \in BOOLEAN :
                  \A alone \in { EpisodeEndLoop(
                                     PictureLoop(StartAs(m), [n \in Envs |-> InputOf(m)],
                                                 [n \in Envs |-> r], 0),
                                     [n \in Envs |-> InputOf(m)], 0) } :
                      LeftAs(alone, m)
       /\ \E q \in [Envs -> BOOLEAN] :
              \A down \in { EpisodeEndLoop(
                                PictureLoopDown(
                                    [StartAs(0) EXCEPT
                                         !.taken = _taken_picture_list,
                                         !.target = _target_index_list,
                                         !.scored = [n \in Envs |->
                                             [ci |-> 0, scanned |-> << 0, 0, 0 >>,
                                              deleted |-> _target_index_list[n], idx |-> -1]]],
                                    [n \in Envs |-> InputOf(n)], q, num_envs - 1),
                                [n \in Envs |-> InputOf(n)], 0) } :
                  \A m \in Envs : LeftAs(down, m)
      ]_vars

\* Two instances took pictures in the same step and came out with different
\* kept pictures, target lists and rewards.
C17_Witness ==
    \E n \in Envs : \E m \in Envs :
        /\ n # m
        /\ picture[n] /\ picture[m]
        /\ reward[n] > 0 /\ reward[m] > 0 /\ reward[n] # reward[m]
        /\ _target_index_list[n] # _target_index_list[m]
        /\ _taken_picture_list[n] # _taken_picture_list[m]

\* C21: the scan that comes before the decision leaves in idx the position
\* of a lowest-scoring slot among the slots that the new map does not
\* overlap significantly, and -1 exactly when there is no such slot.
C21_WeakestUncovered ==
    [][\A n \in Envs :
        Attempt(n)
        => \A slots \in { _taken_picture_list[n] } :
           \A free \in { (1 .. Len(slots)) \ CoveredBy(NewMap(n), slots) } :
               IF free = {}
               THEN scored'[n].idx = -1
               ELSE /\ scored'[n].idx + 1 \in free
                    /\ slots[scored'[n].idx + 1][1] = Lowest(slots, free)
      ]_vars

\* The cells of target category k that the step being taken counts for n.
Hits(n, k) ==
    IF MAP_TARGET_POINT_INDICATOR + k \in Members(_target_index_list[n])
    THEN Cardinality(Shows(infos'[n].top_map, infos'[n].fog_of_war_map,
                           MAP_TARGET_POINT_INDICATOR + k))
    ELSE 0

\* C22 as stated: within an episode a capture is scored on top of the counts
\* the tick before it left: the counter of a target category after the scan
\* is the count left before plus the cells counted now.
C22_CountersPersist ==
    [][\A n \in Envs :
        (picture'[n] /\ ~dones[n])
        => \A k \in 0 .. 2 :
               MAP_TARGET_POINT_INDICATOR + k \in Members(_target_index_list[n])
               => scored'[n].scanned[k + 1] =
                      _observed_object_ci_one[n][k + 1] + Hits(n, k)
      ]_vars

\* C22: a count that a tick left in a counter is gone when the next capture
\* is scored, inside an episode as across its end: the counter after the scan
\* is the count of this tick alone, and a category leaves the target list
\* only when this tick alone counted more than TARGET_THRESHOLD_ONE of its
\* cells.
C22_CountersPerTick ==
    [][\A n \in Envs :
        picture'[n]
        => \A k \in 0 .. 2 :
               _observed_object_ci_one[n][k + 1] > 0
               => \A hits \in { Hits(n, k) } :
                      /\ scored'[n].scanned[k + 1] = hits
                      /\ (/\ MAP_TARGET_POINT_INDICATOR + k \in Members(_target_index_list[n])
                          /\ MAP_TARGET_POINT_INDICATOR + k \notin Members(scored'[n].deleted))
                             => hits > TARGET_THRESHOLD_ONE
      ]_vars

\* A capture that was turned down counted cells of a category of which a
\* kept picture had counted enough to pass TARGET_THRESHOLD_ONE together;
\* the counters hold the count of this capture and the category is still a
\* target.
C22_Witness ==
    \E n \in Envs :
        /\ picture[n] /\ ~dones[n]
        /\ scored[n].ci > 0 /\ ci[n] = 0
        /\ _observed_object_ci_one[n] = scored[n].scanned
        /\ \E k \in 0 .. 2 :
           \E m \in 1 .. Len(_taken_picture_list[n]) :
               /\ scored[n].scanned[k + 1] = scored[n].ci
               /\ \A p \in Covered(_taken_picture_list[n][m][2]) :
                      infos[n].top_map[p[1]][p[2]] = MAP_TARGET_POINT_INDICATOR + k
               /\ _taken_picture_list[n][m][1] + scored[n].scanned[k + 1] > TARGET_THRESHOLD_ONE
               /\ MAP_TARGET_POINT_INDICATOR + k \in Members(_target_index_list[n])

\* The step being taken is a capture of instance 0 that shows more than
\* TARGET_THRESHOLD_ONE cells of every category of its target list.
FullCapture ==
    /\ picture'[0]
    /\ \A c \in Members(_target_index_list[0]) :
           Cardinality(Shows(infos'[0].top_map, infos'[0].fog_of_war_map, c))
               > TARGET_THRESHOLD_ONE

\* Instance 0 tracks the three categories anew.
Restarted == _target_index_list[0] = TargetInit

\* C23: if captures that show more than TARGET_THRESHOLD_ONE cells of every
\* category of the target list keep occurring, the target list is back at the
\* three categories again and again (reset after its last category was
\* removed, or at the end of an episode); and no step leaves an instance with
\* an empty target list.
C23_Cyclic ==
    /\ ([]<><< FullCapture >>_vars) => ([]<>Restarted)
    /\ [](\A n \in Envs : _target_index_list[n] # << >>)

\* A capture emptied a target list that held a single category, inside an
\* episode, and the list was reset.
C23_Witness ==
    /\ picture[0] /\ ~dones[0]
    /\ object_num[0] = 1
    /\ scored[0].deleted = << >>
    /\ _target_index_list[0] = TargetInit

\* C25: after every step the target list of every instance is not empty,
\* holds no category twice and holds only the three target categories, so
\* that category - MAP_TARGET_POINT_INDICATOR is one of the counter positions
\* 0, 1, 2 for each of its members.
C25_TargetWellFormed ==
    \A n \in Envs :
        /\ _target_index_list[n] # << >>
        /\ Cardinality(Members(_target_index_list[n])) = Len(_target_index_list[n])
        /\ Members(_target_index_list[n]) \subseteq Members(TargetInit)
        /\ \A c \in Members(_target_index_list[n]) :
               c - MAP_TARGET_POINT_INDICATOR \in 0 .. 2

\* A capture removed two categories and the one left, the second, is the
\* target list the next step starts from.
C25_Witness ==
    \E n \in Envs :
        /\ picture[n] /\ ~dones[n]
        /\ object_num[n] = 2
        /\ _target_index_list[n] = << MAP_TARGET_POINT_INDICATOR + 1 >>

\* C26: the amount a step adds to the reward of an instance for its picture
\* is never negative, and a step that replaces a kept picture adds more
\* than zero.
C26_DeltaNotNegative ==
    [][\A n \in Envs :
        /\ reward'[n] >= 0
        /\ (/\ picture'[n] /\ ~dones'[n]
            /\ Len(_taken_picture_list'[n]) = Len(_taken_picture_list[n])
            /\ _taken_picture_list'[n] # _taken_picture_list[n])
           => reward'[n] > 0
      ]_vars

\* C29: a capture that adds nothing to the reward leaves the kept pictures of
\* its instance as they were: same pictures, same order, same scores and maps.
C29_NoDeltaNoChange ==
    [][\A n \in Envs :
        (picture'[n] /\ ~dones'[n] /\ reward'[n] = 0)
        => _taken_picture_list'[n] = _taken_picture_list[n]
      ]_vars

\* C28: when a capture that overlaps kept pictures replaces one, the one it
\* replaces is among those it overlaps and the amount taken off the reward is
\* the score that picture was kept with, whatever the kept scores are.
C28_ReplacedIsCovered ==
    [][\A n \in Envs :
        (Attempt(n) /\ ~dones'[n] /\ _taken_picture_list'[n] # _taken_picture_list[n])
        => \A slots \in { _taken_picture_list[n] } :
           \A map \in { NewMap(n) } :
           \A cov \in { CoveredBy(map, slots) } :
               cov # {}
               => \E m \in cov :
                      /\ _taken_picture_list'[n] =
                             [slots EXCEPT ![m] = << scored'[n].ci, map >>]
                      /\ reward'[n] = scored'[n].ci - slots[m][1]
      ]_vars

\* The sum of the scores of the pictures of a list.
RECURSIVE SumOfScores(_)
SumOfScores(slots) ==
    IF slots = << >> THEN 0 ELSE Head(slots)[1] + SumOfScores(Tail(slots))

\* C27: after every step, inside an episode, the ci the steps of the episode
\* added up to current_episode_ci equal the sum of the scores of the pictures
\* the instance keeps.
C27_SumOfDeltas ==
    \A n \in Envs :
        ~dones[n] => current_episode_ci[n] = SumOfScores(_taken_picture_list[n])

\* C24: in every pass of the evaluation, the lists that are read and written
\* for the environment at a place of the batch are those that the steps of
\* that same environment read and wrote before.
C24_SameEnvironment ==
    [][\A n \in Places : eval.list_env[n] = eval.envs[n + 1]]_vars

\* C30: handed the same inputs step after step from the same start, the
\* evaluation and the training leave, for every environment of the batch, the
\* same kept pictures and target list, add the same amount to the reward and
\* report the same number of exhausted categories.
C30_EvalAsTrain ==
    [][\A n \in Places :
        \A e \in { eval.envs[n + 1] } :
            /\ eval'._taken_picture_list[n] = _taken_picture_list'[e]
            /\ eval'._target_index_list[n] = _target_index_list'[e]
            /\ eval'.reward[n] = reward'[e]
            /\ eval'.object_num[n] = object_num'[e]
      ]_vars

====
